---------------------------- MODULE Spec2Model ----------------------------
(***************************************************************************)
(* GATConv (src/triton_tests/gat.py): one forward pass of the graph        *)
(* attention layer, as a state machine that follows forward() line by      *)
(* line.  The layer is built with node_dim = 0, so the FIRST dimension of  *)
(* x indexes the nodes that edge_index refers to and the second dimension  *)
(* (x_dim) is carried along.                                               *)
(*                                                                         *)
(* Tensors are records [shape, val]; val maps index tuples (0-based) to    *)
(* numbers.  Inputs and parameters hold integers, everything from the      *)
(* mean in edge_update on holds exact rationals <<num, den>>.  exp() is    *)
(* modelled by an exponential whose values stay rational (see Exp).        *)
(* edge_index is modelled in its edge-list form: a sequence of             *)
(* <<source, destination>> pairs, one per column of the [2, E] tensor.     *)
(***************************************************************************)
EXTENDS Integers, Sequences, FiniteSets, TLC

\* ------------------------------------------------------------------ bounds
MaxNodes == 3
MaxEdges == 2
NumSeeds == 3

\* ------------------------------------------------------ exact rationals
Abs(a) == IF a < 0 THEN -a ELSE a

RECURSIVE GCD(_, _)
GCD(a, b) == IF b = 0 THEN a ELSE GCD(b, a % b)

LCM(a, b) == (a \div GCD(a, b)) * b

\* n/d in lowest terms with a positive denominator (d # 0)
Rat(n, d) ==
  LET g == GCD(Abs(n), Abs(d))
      s == IF d < 0 THEN -1 ELSE 1
  IN  <<s * (n \div g), s * (d \div g)>>

R(n) == <<n, 1>>

RAdd(p, q) ==
  LET l == LCM(p[2], q[2])
  IN  Rat(p[1] * (l \div p[2]) + q[1] * (l \div q[2]), l)

RNeg(p) == <<-p[1], p[2]>>

RSub(p, q) == RAdd(p, RNeg(q))

RMul(p, q) ==
  LET g1 == GCD(Abs(p[1]), q[2])
      g2 == GCD(Abs(q[1]), p[2])
  IN  Rat((p[1] \div g1) * (q[1] \div g2), (p[2] \div g2) * (q[2] \div g1))

RDiv(p, q) == RMul(p, Rat(q[2], q[1]))

RLess(p, q) == p[1] * q[2] < q[1] * p[2]

RMax(p, q) == IF RLess(p, q) THEN q ELSE p

RECURSIVE SumSeq(_)
SumSeq(s) == IF s = <<>> THEN 0 ELSE Head(s) + SumSeq(Tail(s))

RECURSIVE RSumSeq(_)
RSumSeq(s) == IF s = <<>> THEN R(0) ELSE RAdd(Head(s), RSumSeq(Tail(s)))

RECURSIVE RMaxSeq(_)
RMaxSeq(s) == IF Len(s) = 1 THEN s[1] ELSE RMax(Head(s), RMaxSeq(Tail(s)))

RECURSIVE Pow2(_)
Pow2(n) == IF n = 0 THEN 1 ELSE 2 * Pow2(n - 1)

\* Positions of s that satisfy Keep, in increasing order
RECURSIVE Positions(_, _, _)
Positions(Keep(_), n, k) ==
  IF k > n THEN <<>>
  ELSE (IF Keep(k) THEN <<k>> ELSE <<>>) \o Positions(Keep, n, k + 1)

\* ----------------------------------------------------------------- tensors
Idx(n) == 0 .. (n - 1)

Indices(shape) ==
  CASE Len(shape) = 1 -> {<<a>> : a \in Idx(shape[1])}
    [] Len(shape) = 2 -> Idx(shape[1]) \X Idx(shape[2])
    [] Len(shape) = 3 -> Idx(shape[1]) \X Idx(shape[2]) \X Idx(shape[3])
    [] Len(shape) = 4 -> Idx(shape[1]) \X Idx(shape[2]) \X Idx(shape[3]) \X Idx(shape[4])

Tensor(shape, F(_)) == [shape |-> shape, val |-> [i \in Indices(shape) |-> F(i)]]

\* a local that has not been assigned yet
Unset == [shape |-> <<>>, val |-> <<>>]

Dim(t) == Len(t.shape)


\* ------------------------------------------- torch / torch_geometric calls
\* self.lin(x).view(-1, x_dim, H, F): y = x W^T on the last dimension, the
\* H*F outputs split into H heads of width F
LinView(xin, weight, H, F) ==
  Tensor(<<xin.shape[1], xin.shape[2], H, F>>,
         LAMBDA i : SumSeq([c \in 1 .. xin.shape[3] |->
                     xin.val[<<i[1], i[2], c - 1>>] * weight.val[<<i[3] * F + i[4], c - 1>>]]))

\* (x * att).sum(dim=-1), att of shape [1, 1, H, F] broadcast over nodes and x_dim
AttLogit(xp, att) ==
  Tensor(<<xp.shape[1], xp.shape[2], xp.shape[3]>>,
         LAMBDA i : SumSeq([f \in 1 .. xp.shape[4] |->
                     xp.val[<<i[1], i[2], i[3], f - 1>>] * att.val[<<0, 0, i[3], f - 1>>]]))

Pick(s, pos) == [k \in 1 .. Len(pos) |-> s[pos[k]]]

NoAttr == [present |-> FALSE, v |-> <<>>]

\* mutant: self-loops of the input are kept
RemoveSelfLoopsKeepsAll(ei, ea) == [edge_index |-> ei, edge_attr |-> ea]

\* remove_self_loops(edge_index, edge_attr): keeps the columns with
\* source # destination, in order, and the matching rows of edge_attr
RemoveSelfLoops(ei, ea) ==
  LET keep == Positions(LAMBDA k : ei[k][1] # ei[k][2], Len(ei), 1)
  IN  [edge_index |-> Pick(ei, keep),
       edge_attr  |-> IF ea.present THEN [present |-> TRUE, v |-> Pick(ea.v, keep)]
                      ELSE NoAttr]

\* scatter(edge_attr, edge_index[1], 0, num_nodes, 'mean')[i]: the mean of the
\* attributes of the edges that enter node i, 0 for a node without edges
ScatterMean(ei, attr, i) ==
  LET into == Positions(LAMBDA k : ei[k][2] = i, Len(ei), 1)
  IN  IF into = <<>> THEN R(0)
      ELSE RDiv(RSumSeq(Pick(attr, into)), R(Len(into)))

\* the attribute add_self_loops gives the loop (i, i)
LoopAttr(ei, ea, fill_value, i) ==
  IF fill_value.kind = "mean" THEN ScatterMean(ei, ea.v, i) ELSE R(fill_value.v)

\* mutant: the last node gets no self-loop
AddSelfLoopsOneShort(ei, ea, fill_value, num_nodes) ==
  [edge_index |-> ei \o [k \in 1 .. num_nodes - 1 |-> <<k - 1, k - 1>>],
   edge_attr  |-> IF ea.present
                  THEN [present |-> TRUE,
                        v |-> ea.v \o [k \in 1 .. num_nodes - 1 |->
                                         LoopAttr(ei, ea, fill_value, k - 1)]]
                  ELSE NoAttr]

\* add_self_loops(edge_index, edge_attr, fill_value, num_nodes): appends the
\* columns (0,0) .. (num_nodes-1, num_nodes-1) after the given ones
AddSelfLoops(ei, ea, fill_value, num_nodes) ==
  [edge_index |-> ei \o [k \in 1 .. num_nodes |-> <<k - 1, k - 1>>],
   edge_attr  |-> IF ea.present
                  THEN [present |-> TRUE,
                        v |-> ea.v \o [k \in 1 .. num_nodes |->
                                         LoopAttr(ei, ea, fill_value, k - 1)]]
                  ELSE NoAttr]

\* the scatter of the 'mean' fill indexes a buffer of num_nodes rows
FillScatterInRange(ei, ea, fill_value, num_nodes) ==
  (ea.present /\ fill_value.kind = "mean") =>
     \A k \in 1 .. Len(ei) : ei[k][2] < num_nodes

\* lines 113-117: remove_self_loops, then add_self_loops
WithSelfLoops(ei, ea, fill_value, num_nodes) ==
  LET removed == RemoveSelfLoops(ei, ea)
  IN  AddSelfLoops(removed.edge_index, removed.edge_attr, fill_value, num_nodes)

WithSelfLoopsOk(ei, ea, fill_value, num_nodes) ==
  LET removed == RemoveSelfLoops(ei, ea)
  IN  FillScatterInRange(removed.edge_index, removed.edge_attr, fill_value, num_nodes)

Min(a, b) == IF a < b THEN a ELSE b

\* mutant: size is ignored
NumNodesOfX(xp, sz) == xp.shape[1]

\* num_nodes = min(size) if size is not None else x.size(0)
NumNodes(xp, sz) == IF sz # <<>> THEN Min(sz[1], sz[2]) ELSE xp.shape[1]

\* edge_updater's collect step: alpha_j = alpha[0][edge_index[0]],
\* alpha_i = alpha[1][edge_index[1]] (index_select along node_dim = 0)
Lift(t, ei, col) ==
  Tensor(<<Len(ei), t.shape[2], t.shape[3]>>,
         LAMBDA i : t.val[<<ei[i[1] + 1][col], i[2], i[3]>>])

IndexInRange(ei, n) == \A k \in 1 .. Len(ei) : ei[k][1] < n /\ ei[k][2] < n

\* mutant: .sum(dim=1, keepdim=True)
SumLogitsNoMean(alpha_j, alpha_i) ==
  Tensor(<<alpha_j.shape[1], 1, alpha_j.shape[3]>>,
         LAMBDA i : R(SumSeq([k \in 1 .. alpha_j.shape[2] |->
                        alpha_j.val[<<i[1], k - 1, i[3]>>] + alpha_i.val[<<i[1], k - 1, i[3]>>]])))

\* (alpha_j + alpha_i).mean(dim=1, keepdim=True)
SumLogits(alpha_j, alpha_i) ==
  Tensor(<<alpha_j.shape[1], 1, alpha_j.shape[3]>>,
         LAMBDA i : Rat(SumSeq([k \in 1 .. alpha_j.shape[2] |->
                          alpha_j.val[<<i[1], k - 1, i[3]>>] + alpha_i.val[<<i[1], k - 1, i[3]>>]]),
                        alpha_j.shape[2]))

\* mutant: the edge attribute is added to the logits of its edge
EdgeUpdateLogitsWithAttr(alpha_j, alpha_i, ea) ==
  Tensor(<<alpha_j.shape[1], 1, alpha_j.shape[3]>>,
         LAMBDA i : RAdd(SumLogits(alpha_j, alpha_i).val[i],
                         IF ea.present THEN ea.v[i[1] + 1] ELSE R(0)))

\* edge_update, line 145.  edge_attr is a parameter of edge_update that no
\* line of it reads.
EdgeUpdateLogits(alpha_j, alpha_i, ea) == SumLogits(alpha_j, alpha_i)

\* F.leaky_relu(alpha, negative_slope)
LeakyRelu(t, slope) ==
  Tensor(t.shape, LAMBDA i : IF t.val[i][1] >= 0 THEN t.val[i] ELSE RMul(slope, t.val[i]))

\* exp() on the shifted logits, which are all <= 0.  e^q is irrational, so the
\* model uses the exponential b^q with b = 2^(1/unit), unit a rational that
\* every logit of the call is a multiple of: b^q = 2^(q/unit) is rational,
\* b^0 = 1, b^q > 0 and b^(p+q) = b^p * b^q.
Exp(q, unit) == Rat(1, Pow2(-RDiv(q, unit)[1]))

RECURSIVE LCMSeq(_)
LCMSeq(s) == IF s = <<>> THEN 1 ELSE LCM(Head(s), LCMSeq(Tail(s)))

RECURSIVE GCDSeq(_)
GCDSeq(s) == IF s = <<>> THEN 0 ELSE GCD(Head(s), GCDSeq(Tail(s)))

\* the largest rational that every element of the sequence is a multiple of
\* (1 when all are 0)
Unit(s) ==
  LET den == LCMSeq([k \in 1 .. Len(s) |-> s[k][2]])
      g == GCDSeq([k \in 1 .. Len(s) |-> Abs(s[k][1]) * (den \div s[k][2])])
  IN  IF g = 0 THEN R(1) ELSE Rat(g, den)

\* edges (rows of src) whose index is g
Group(index, g) == Positions(LAMBDA k : index[k] = g, Len(index), 1)

\* torch_geometric.utils.softmax(src, index, None, N) along dim 0:
\*   src_max = scatter(src, index, reduce='max');  out = (src - src_max[index]).exp()
\*   out_sum = scatter(out, index, reduce='sum') + 1e-16;  return out / out_sum[index]
\* (every group's sum is >= 1, so adding 1e-16 does not change the float)
ShiftedLogits(src, index) ==
  LET at(e, h) == src.val[<<e - 1, 0, h>>]
      src_max(g, h) == RMaxSeq([k \in 1 .. Len(Group(index, g)) |-> at(Group(index, g)[k], h)])
  IN  Tensor(src.shape, LAMBDA i : RSub(src.val[i], src_max(index[i[1] + 1], i[3])))

ExpOf(shifted, unit) == Tensor(shifted.shape, LAMBDA i : Exp(shifted.val[i], unit))

Normalized(out, index) ==
  LET out_sum(g, h) ==
        RSumSeq([k \in 1 .. Len(Group(index, g)) |-> out.val[<<Group(index, g)[k] - 1, 0, h>>]])
  IN  Tensor(out.shape, LAMBDA i : RDiv(out.val[i], out_sum(index[i[1] + 1], i[3])))

Elements(t) ==
  [k \in 1 .. t.shape[1] * t.shape[3] |->
     t.val[<<(k - 1) \div t.shape[3], 0, (k - 1) % t.shape[3]>>]]

Softmax(src, index) ==
  Normalized(ExpOf(ShiftedLogits(src, index), Unit(Elements(ShiftedLogits(src, index)))), index)

\* F.dropout(alpha, p, training): the identity unless training with p > 0;
\* otherwise every element is zeroed (mask FALSE) or scaled by 1/(1-p)
Dropout(t, p, training, mask) ==
  IF ~training \/ p = R(0) THEN t
  ELSE Tensor(t.shape, LAMBDA i : IF mask[i] THEN RDiv(t.val[i], RSub(R(1), p)) ELSE R(0))

Dst(ei) == [k \in 1 .. Len(ei) |-> ei[k][2]]

\* mutant: one softmax over all edges
EdgeUpdateWeightsUngrouped(al, index, slope, p, training, mask) ==
  Dropout(Softmax(LeakyRelu(al, slope), [k \in 1 .. Len(index) |-> 0]), p, training, mask)

\* edge_update, lines 149-152, on index = edge_index[1]
EdgeUpdateWeights(al, index, slope, p, training, mask) ==
  Dropout(Softmax(LeakyRelu(al, slope), index), p, training, mask)

\* the masks F.dropout can draw for a tensor of this shape
Masks(shape, p, training) ==
  [Indices(shape) -> IF training /\ p # R(0) THEN BOOLEAN ELSE {TRUE}]

\* mutant: x_i, the destination's feature, in place of x_j
MessageOfTarget(xp, ei, al) ==
  Tensor(<<Len(ei), xp.shape[2], xp.shape[3], xp.shape[4]>>,
         LAMBDA i : RMul(al.val[<<i[1], 0, i[3]>>],
                         R(xp.val[<<ei[i[1] + 1][2], i[2], i[3], i[4]>>])))

\* message(x_j, alpha) = alpha.unsqueeze(-1) * x_j with x_j = x[edge_index[0]]
Message(xp, ei, al) ==
  Tensor(<<Len(ei), xp.shape[2], xp.shape[3], xp.shape[4]>>,
         LAMBDA i : RMul(al.val[<<i[1], 0, i[3]>>],
                         R(xp.val[<<ei[i[1] + 1][1], i[2], i[3], i[4]>>])))

\* aggr = 'add': scatter-add of the messages by destination into dim_size rows
Aggregate(msg, index, dim_size) ==
  Tensor(<<dim_size, msg.shape[2], msg.shape[3], msg.shape[4]>>,
         LAMBDA i : RSumSeq([k \in 1 .. Len(Group(index, i[1])) |->
                      msg.val[<<Group(index, i[1])[k] - 1, i[2], i[3], i[4]>>]]))

\* propagate's dim_size: size[1] when size is given, else the number of nodes
DimSize(xp, sz) == IF sz # <<>> THEN sz[2] ELSE xp.shape[1]

\* propagate checks size[0] against x.size(0) and the aggregation checks that
\* every destination index fits in dim_size
PropagateOk(xp, ei, sz) ==
  /\ sz # <<>> => sz[1] = xp.shape[1]
  /\ \A k \in 1 .. Len(ei) : ei[k][2] < DimSize(xp, sz)

\* mutant: the view forgets the heads
ConcatViewOneHead(o, x_dim, H, F) ==
  Tensor(<<o.shape[1], x_dim, F>>, LAMBDA i : o.val[<<i[1], i[2], 0, i[3]>>])

\* out.view(-1, x_dim, heads * out_channels)
ConcatView(o, x_dim, H, F) ==
  Tensor(<<o.shape[1], x_dim, H * F>>,
         LAMBDA i : o.val[<<i[1], i[2], i[3] \div F, i[3] % F>>])

\* out.mean(dim=2)
MeanHeads(o) ==
  Tensor(<<o.shape[1], o.shape[2], o.shape[4]>>,
         LAMBDA i : RDiv(RSumSeq([h \in 1 .. o.shape[3] |-> o.val[<<i[1], i[2], h - 1, i[3]>>]]),
                         R(o.shape[3])))

\* ------------------------------------------------------------------- state
VARIABLES
  self,        \* the layer: constructor arguments, parameters, training flag
  args,        \* the caller's arguments to forward (never written)
  pc,          \* position in forward
  x,           \* local x (the projected features after line 100)
  x_dim,       \* x.shape[1] of the input
  alpha_src,   \* alpha[0]
  alpha_dst,   \* alpha[1]
  edge_index,  \* local edge_index (rebound by lines 113-117)
  edge_attr,   \* local edge_attr
  alpha,       \* edge_update's alpha, then forward's
  out,
  result,      \* what forward returned
  error        \* the exception forward raised, "" if none

vars == <<self, args, pc, x, x_dim, alpha_src, alpha_dst, edge_index, edge_attr,
          alpha, out, result, error>>

NoResult == [kind |-> "none", out |-> Unset, edge_index |-> <<>>, alpha |-> Unset]

\* forward is entered: the locals are the arguments
Call(layer, a) ==
  /\ self = layer
  /\ args = a
  /\ pc = "assert"
  /\ x = a.x
  /\ x_dim = 0
  /\ alpha_src = Unset
  /\ alpha_dst = Unset
  /\ edge_index = a.edge_index
  /\ edge_attr = a.edge_attr
  /\ alpha = Unset
  /\ out = Unset
  /\ result = NoResult
  /\ error = ""

\* mutant: assert x.dim() >= 2
RankAtLeastTwo(t) == Dim(t) >= 2

\* assert x.dim() == 3
RankSupported(t) == Dim(t) = 3

Raise(e) ==
  /\ pc' = "raised"
  /\ error' = e

\* line 98
AssertRank ==
  /\ pc = "assert"
  /\ RankSupported(x)
  /\ pc' = "lin"
  /\ UNCHANGED <<self, args, x, x_dim, alpha_src, alpha_dst, edge_index, edge_attr,
                 alpha, out, result, error>>

AssertRankFails ==
  /\ pc = "assert"
  /\ ~RankSupported(x)
  /\ Raise("AssertionError")
  /\ UNCHANGED <<self, args, x, x_dim, alpha_src, alpha_dst, edge_index, edge_attr,
                 alpha, out, result>>

\* lines 99-100
Project ==
  /\ pc = "lin"
  /\ x_dim' = x.shape[2]
  /\ x' = LinView(x, self.lin_weight, self.heads, self.out_channels)
  /\ pc' = "att"
  /\ UNCHANGED <<self, args, alpha_src, alpha_dst, edge_index, edge_attr, alpha, out,
                 result, error>>

\* lines 104-106
NodeLogits ==
  /\ pc = "att"
  /\ alpha_src' = AttLogit(x, self.att_src)
  /\ alpha_dst' = AttLogit(x, self.att_dst)
  /\ pc' = "loops"
  /\ UNCHANGED <<self, args, x, x_dim, edge_index, edge_attr, alpha, out, result, error>>

\* lines 108-117
SelfLoops ==
  /\ pc = "loops"
  /\ IF self.add_self_loops
     THEN LET num_nodes == NumNodes(x, args.size)
              added == WithSelfLoops(edge_index, edge_attr, self.fill_value, num_nodes)
          IN  /\ WithSelfLoopsOk(edge_index, edge_attr, self.fill_value, num_nodes)
              /\ edge_index' = added.edge_index
              /\ edge_attr' = added.edge_attr
     ELSE UNCHANGED <<edge_index, edge_attr>>
  /\ pc' = "edge_updater"
  /\ UNCHANGED <<self, args, x, x_dim, alpha_src, alpha_dst, alpha, out, result, error>>

\* line 115: the 'mean' fill scatters an edge_attr row out of its buffer
SelfLoopsFails ==
  /\ pc = "loops"
  /\ self.add_self_loops
  /\ ~WithSelfLoopsOk(edge_index, edge_attr, self.fill_value, NumNodes(x, args.size))
  /\ Raise("RuntimeError")
  /\ UNCHANGED <<self, args, x, x_dim, alpha_src, alpha_dst, edge_index, edge_attr,
                 alpha, out, result>>

\* line 120 up to line 145: edge_updater gathers alpha_j and alpha_i and
\* edge_update sums them
EdgeUpdateSum ==
  /\ pc = "edge_updater"
  /\ IndexInRange(edge_index, x.shape[1])
  /\ alpha' = EdgeUpdateLogits(Lift(alpha_src, edge_index, 1),
                               Lift(alpha_dst, edge_index, 2), edge_attr)
  /\ pc' = "edge_update"
  /\ UNCHANGED <<self, args, x, x_dim, alpha_src, alpha_dst, edge_index, edge_attr, out,
                 result, error>>

\* line 120: index_select with an index that is no row of alpha
EdgeUpdaterFails ==
  /\ pc = "edge_updater"
  /\ ~IndexInRange(edge_index, x.shape[1])
  /\ Raise("IndexError")
  /\ UNCHANGED <<self, args, x, x_dim, alpha_src, alpha_dst, edge_index, edge_attr,
                 alpha, out, result>>

\* lines 146-147
EdgeUpdateEmpty ==
  /\ pc = "edge_update"
  /\ Len(edge_index) = 0
  /\ pc' = "propagate"
  /\ UNCHANGED <<self, args, x, x_dim, alpha_src, alpha_dst, edge_index, edge_attr,
                 alpha, out, result, error>>

\* lines 149-152
EdgeUpdateSoftmax ==
  /\ pc = "edge_update"
  /\ Len(edge_index) # 0
  /\ \E mask \in Masks(alpha.shape, self.dropout, self.training) :
        alpha' = EdgeUpdateWeights(alpha, Dst(edge_index), self.negative_slope,
                                   self.dropout, self.training, mask)
  /\ pc' = "propagate"
  /\ UNCHANGED <<self, args, x, x_dim, alpha_src, alpha_dst, edge_index, edge_attr, out,
                 result, error>>

\* line 123 with message (154-155) and the 'add' aggregation (42)
Propagate ==
  /\ pc = "propagate"
  /\ PropagateOk(x, edge_index, args.size)
  /\ out' = Aggregate(Message(x, edge_index, alpha), Dst(edge_index), DimSize(x, args.size))
  /\ pc' = "concat"
  /\ UNCHANGED <<self, args, x, x_dim, alpha_src, alpha_dst, edge_index, edge_attr,
                 alpha, result, error>>

PropagateFails ==
  /\ pc = "propagate"
  /\ ~PropagateOk(x, edge_index, args.size)
  /\ Raise("ValueError")
  /\ UNCHANGED <<self, args, x, x_dim, alpha_src, alpha_dst, edge_index, edge_attr,
                 alpha, out, result>>

\* lines 125-128
ConcatOrMean ==
  /\ pc = "concat"
  /\ out' = IF self.concat THEN ConcatView(out, x_dim, self.heads, self.out_channels)
            ELSE MeanHeads(out)
  /\ pc' = "return"
  /\ UNCHANGED <<self, args, x, x_dim, alpha_src, alpha_dst, edge_index, edge_attr,
                 alpha, result, error>>

\* mutant: if return_attention_weights:
IsTrue(v) == v = "True"

\* isinstance(return_attention_weights, bool)
IsBool(v) == v \in {"True", "False"}

\* lines 130-138
Return ==
  /\ pc = "return"
  /\ result' = IF IsBool(args.return_attention_weights)
               THEN [kind |-> "tuple", out |-> out, edge_index |-> edge_index,
                     alpha |-> alpha]
               ELSE [kind |-> "tensor", out |-> out, edge_index |-> <<>>, alpha |-> Unset]
  /\ pc' = "done"
  /\ UNCHANGED <<self, args, x, x_dim, alpha_src, alpha_dst, edge_index, edge_attr,
                 alpha, out, error>>

Next ==
  \/ AssertRank
  \/ AssertRankFails
  \/ Project
  \/ NodeLogits
  \/ SelfLoops
  \/ SelfLoopsFails
  \/ EdgeUpdateSum
  \/ EdgeUpdaterFails
  \/ EdgeUpdateEmpty
  \/ EdgeUpdateSoftmax
  \/ Propagate
  \/ PropagateFails
  \/ ConcatOrMean
  \/ Return

\* ------------------------------------------------------------ initial states
\* Parameter and feature values in -1 .. 1: every seed reads the table from
\* another position
Values == <<1, 1, 0, 1, -1, -1, 1, -1, 1, 1, -1, -1, -1, 0, 1, 0, -1, 1, -1, -1, 1, -1, 0>>

Gen(seed, i) == Values[((7 * seed + i) % Len(Values)) + 1]

InputX(N, D, C, seed) ==
  Tensor(<<N, D, C>>, LAMBDA i : Gen(seed, (i[1] * D + i[2]) * C + i[3]))

\* a feature tensor of another rank (1, 2 or 4)
InputOfRank(r, N, C, seed) ==
  Tensor(CASE r = 1 -> <<C>> [] r = 2 -> <<N, C>> [] r = 4 -> <<1, N, 1, C>>,
         LAMBDA i : Gen(seed, SumSeq(i)))

Layer(C, F, H, concat, slope, dropout, asl, fill, training, seed) ==
  [in_channels |-> C, out_channels |-> F, heads |-> H, concat |-> concat,
   negative_slope |-> slope, dropout |-> dropout, add_self_loops |-> asl,
   fill_value |-> fill, training |-> training,
   lin_weight |-> Tensor(<<H * F, C>>, LAMBDA i : Gen(seed, 11 + i[1] * C + i[2])),
   att_src |-> Tensor(<<1, 1, H, F>>, LAMBDA i : Gen(seed, 5 + i[3] * F + i[4])),
   att_dst |-> Tensor(<<1, 1, H, F>>, LAMBDA i : Gen(seed, 17 + i[3] * F + i[4]))]

Args(xt, ei, ea, sz, raw) ==
  [x |-> xt, edge_index |-> ei, edge_attr |-> ea, size |-> sz,
   return_attention_weights |-> raw]

\* the constructor's defaults (lines 34-39)
DefaultSlope == Rat(2, 10)
MeanFill == [kind |-> "mean", v |-> 0]
DefaultLayer(asl) ==
  Layer(1, 1, 1, TRUE, DefaultSlope, R(0), asl, MeanFill, FALSE, 0)

\* the edge lists over N nodes of at most maxLen columns, one per multiset of
\* edges (columns in lexicographic order; SampleGraphs has unordered ones)
EdgeLists(N, maxLen) ==
  {ei \in UNION {[1 .. k -> Idx(N) \X Idx(N)] : k \in 0 .. maxLen} :
     \A k \in 1 .. Len(ei) - 1 :
        ei[k][1] * N + ei[k][2] <= ei[k + 1][1] * N + ei[k + 1][2]}

\* every graph within the bounds, default layer
GraphRuns ==
  {<<DefaultLayer(asl), Args(InputX(N, 1, 1, 0), ei, NoAttr, <<>>, "None")>> :
     <<N, ei, asl>> \in UNION {{N} \X EdgeLists(N, MaxEdges) \X BOOLEAN : N \in 1 .. MaxNodes}}

\* explicit node counts (size), up to one more than the nodes of x
BipartiteRuns ==
  {<<DefaultLayer(c[3]), Args(InputX(c[1], 1, 1, 1), c[2], NoAttr, c[4], "None")>> :
     c \in UNION {{N} \X EdgeLists(N, MaxEdges - 1) \X BOOLEAN
                     \X ((1 .. MaxNodes) \X (1 .. MaxNodes)) : N \in 1 .. MaxNodes - 1}}

\* graphs for the runs that vary the layer instead: <<number of nodes, edges>>
SampleGraphs ==
  { <<1, <<>>>>,
    <<2, <<>>>>,
    <<2, << <<0, 1>> >>>>,
    <<2, << <<0, 1>>, <<0, 1>> >>>>,
    <<3, << <<0, 1>>, <<1, 2>> >>>>,
    <<3, << <<0, 1>>, <<1, 2>>, <<0, 0>> >>>>,
    <<3, << <<0, 2>>, <<1, 2>>, <<1, 2>> >>>> }

\* <<x_dim, heads, out_channels, in_channels>>
Shapes == { <<1, 1, 1, 1>>, <<2, 1, 1, 1>>, <<2, 2, 1, 2>>, <<1, 2, 2, 1>>, <<2, 2, 2, 2>> }

Slopes == { DefaultSlope, R(0), Rat(1, 2) }

\* <<shape, negative_slope>>; the slope 1/5 makes the logits multiples of
\* 1/(5 * x_dim) and goes with the shapes whose weights stay within 32 bits
ShapedSlopes ==
  {c \in Shapes \X Slopes : c[2] = DefaultSlope => c[1][1] * c[1][3] * c[1][4] <= 2}

NumericRuns ==
  {<<Layer(c[2][1][4], c[2][1][3], c[2][1][2], c[3], c[2][2], R(0), c[4], MeanFill, FALSE,
           c[5]),
     Args(InputX(c[1][1], c[2][1][1], c[2][1][4], c[5]), c[1][2], NoAttr, <<>>, "True")>> :
     c \in SampleGraphs \X ShapedSlopes \X BOOLEAN \X BOOLEAN \X (0 .. NumSeeds - 1)}

ReturnFlags == {"None", "True", "False"}

ReturnRuns ==
  {<<Layer(1, 2, 2, c[2], DefaultSlope, R(0), c[3], MeanFill, FALSE, 1),
     Args(InputX(c[1][1], 1, 1, 2), c[1][2], NoAttr, <<>>, c[4])>> :
     c \in SampleGraphs \X BOOLEAN \X BOOLEAN \X ReturnFlags}

AttrValues == {0, 1, 3}
Fills == { MeanFill, [kind |-> "float", v |-> 2], [kind |-> "Tensor", v |-> 1] }

AttrRuns ==
  {<<Layer(1, 1, 2, TRUE, DefaultSlope, R(0), c[3], c[4], FALSE, 2),
     Args(InputX(c[1][1], 1, 1, 0), c[1][2],
          [present |-> TRUE, v |-> [k \in 1 .. Len(c[1][2]) |-> R(c[2][k])]], c[5], "True")>> :
     c \in UNION {{g} \X [1 .. Len(g[2]) -> AttrValues] \X BOOLEAN \X Fills
                     \X {<<>>, <<g[1], 2>>} : g \in SampleGraphs}}

\* training mode: dropout draws a mask
TrainingRuns ==
  {<<Layer(1, 1, 1, TRUE, DefaultSlope, c[2], c[3], MeanFill, TRUE, 1),
     Args(InputX(c[1][1], 1, 1, 1), c[1][2], NoAttr, <<>>, "True")>> :
     c \in {g \in SampleGraphs : g[1] <= 2} \X {R(0), Rat(1, 2)} \X BOOLEAN}

RankRuns ==
  {<<DefaultLayer(c[3]), Args(InputOfRank(c[1], c[2][1], 1, 0), c[2][2], NoAttr, <<>>, c[4])>> :
     c \in {1, 2, 4} \X SampleGraphs \X BOOLEAN \X ReturnFlags}

Runs == GraphRuns \cup BipartiteRuns \cup NumericRuns \cup ReturnRuns \cup AttrRuns
          \cup TrainingRuns \cup RankRuns

Init == \E run \in Runs : Call(run[1], run[2])

Spec == Init /\ [][Next]_vars

\* ------------------------------------------------------------------ claims
RECURSIVE RSumSet(_, _)
RSumSet(F(_), S) ==
  IF S = {} THEN R(0)
  ELSE LET e == CHOOSE e \in S : TRUE IN RAdd(F(e), RSumSet(F, S \ {e}))

\* number of columns of ei equal to e
Count(ei, e) == Cardinality({k \in 1 .. Len(ei) : ei[k] = e})

\* columns of the working edge list that enter node d
Incoming(d) == {k \in 1 .. Len(edge_index) : edge_index[k][2] = d}

NodesOfX == Idx(args.x.shape[1])

\* lines 108-117 have run
LoopsDone ==
  \/ pc \in {"edge_updater", "edge_update", "propagate", "concat", "return", "done"}
  \/ pc = "raised" /\ error \in {"IndexError", "ValueError"}

\* edge_update has returned its weights
WeightsDone ==
  \/ pc \in {"propagate", "concat", "return", "done"}
  \/ pc = "raised" /\ error = "ValueError"

\* C1: in inference mode, for every head and every destination node with an
\* incoming edge in the edge list forward works on, the attention weights of
\* the edges entering that node sum to 1 and none is negative.
C1_WeightsSumToOne ==
  (WeightsDone /\ ~self.training) =>
    \A h \in Idx(self.heads) : \A k \in 1 .. Len(edge_index) :
      /\ alpha.val[<<k - 1, 0, h>>][1] >= 0
      /\ RSumSet(LAMBDA e : alpha.val[<<e - 1, 0, h>>], Incoming(edge_index[k][2])) = R(1)

\* a node with two incoming edges of different weight
C1_Witness ==
  /\ pc = "done"
  /\ ~self.training
  /\ \E k1, k2 \in 1 .. Len(edge_index) :
       /\ edge_index[k1][2] = edge_index[k2][2]
       /\ alpha.val[<<k1 - 1, 0, 0>>] # alpha.val[<<k2 - 1, 0, 0>>]

\* C2: with add_self_loops and no size, the working edge list holds every
\* input edge (s,d), s # d, as often as the input does, exactly one (i,i) for
\* every node i of x, and nothing else.
C2_SelfLoopsExactlyOnce ==
  (LoopsDone /\ self.add_self_loops /\ args.size = <<>>) =>
    /\ \A k \in 1 .. Len(edge_index) : edge_index[k] \in NodesOfX \X NodesOfX
    /\ \A s \in NodesOfX : \A d \in NodesOfX :
         Count(edge_index, <<s, d>>) =
           IF s = d THEN 1 ELSE Count(args.edge_index, <<s, d>>)

\* the example of the specification, with the self-loop (0,0) already present
C2_Witness ==
  /\ pc = "done"
  /\ self.add_self_loops
  /\ args.size = <<>>
  /\ args.edge_index = << <<0, 1>>, <<1, 2>>, <<0, 0>> >>
  /\ edge_index = << <<0, 1>>, <<1, 2>>, <<0, 0>>, <<1, 1>>, <<2, 2>> >>

\* C3: with add_self_loops and size = (n_src, n_dst), the working edge list
\* has the self-loop (i,i) exactly for the i < min(n_src, n_dst).
C3_BipartiteSelfLoops ==
  (LoopsDone /\ self.add_self_loops /\ args.size # <<>>) =>
    \A i \in 0 .. (args.x.shape[1] + args.size[1] + args.size[2]) :
      (\E k \in 1 .. Len(edge_index) : edge_index[k] = <<i, i>>)
        <=> (i < args.size[1] /\ i < args.size[2])

\* different node counts and an input self-loop beyond the smaller one
C3_Witness ==
  /\ LoopsDone
  /\ self.add_self_loops
  /\ args.size # <<>>
  /\ args.size[1] # args.size[2]
  /\ \E k \in 1 .. Len(args.edge_index) :
       /\ args.edge_index[k][1] = args.edge_index[k][2]
       /\ args.edge_index[k][1] >= args.size[1] \/ args.edge_index[k][1] >= args.size[2]
  /\ Len(edge_index) > 0

\* C4: forward on an x whose rank is not 3 raises at the assertion: no local
\* is ever assigned, x is not reshaped, nothing is returned.
C4_RankRejected ==
  Dim(args.x) # 3 =>
    /\ pc \in {"assert", "raised"}
    /\ pc = "raised" => error = "AssertionError"
    /\ x = args.x
    /\ x_dim = 0
    /\ edge_index = args.edge_index
    /\ edge_attr = args.edge_attr
    /\ alpha_src = Unset /\ alpha_dst = Unset /\ alpha = Unset /\ out = Unset
    /\ result = NoResult

C4_Witness ==
  /\ Dim(args.x) = 2
  /\ pc = "raised"
  /\ error = "AssertionError"

\* C5 as stated: the pair is returned exactly when return_attention_weights
\* is True; None and False return the embeddings alone.
C5_PairOnlyWhenTrue ==
  pc = "done" =>
    (result.kind = "tuple" <=> args.return_attention_weights = "True")

\* C5 amended: the pair (edge index, attention weights) is returned whenever
\* return_attention_weights is a bool, True or False; None returns the
\* embeddings alone.
C5_PairWheneverBool ==
  pc = "done" =>
    IF args.return_attention_weights \in {"True", "False"}
    THEN result = [kind |-> "tuple", out |-> out, edge_index |-> edge_index,
                   alpha |-> alpha]
    ELSE result = [kind |-> "tensor", out |-> out, edge_index |-> <<>>, alpha |-> Unset]

C5_Witness ==
  /\ pc = "done"
  /\ args.return_attention_weights = "False"
  /\ result.kind = "tuple"
  /\ result.alpha = alpha

\* width of the returned embeddings
Width == IF self.concat THEN self.heads * self.out_channels ELSE self.out_channels

\* C6 as stated: the returned embeddings have last dimension heads*out_channels
\* (concat) or out_channels (mean), and the other dimensions are those of x.
C6_ShapeOfX ==
  pc = "done" => result.out.shape = <<args.x.shape[1], args.x.shape[2], Width>>

\* C6 amended: the last dimension is heads*out_channels (concat) or
\* out_channels (mean) and the second is that of x; the first is the number
\* of nodes of x when size is not given, and n_dst = size[1] when it is.
C6_OutputShape ==
  pc = "done" =>
    result.out.shape =
      << IF args.size = <<>> THEN args.x.shape[1] ELSE args.size[2],
         args.x.shape[2], Width >>

\* several heads of several channels, averaged
C6_Witness ==
  /\ pc = "done"
  /\ self.heads = 2
  /\ self.out_channels = 2
  /\ ~self.concat
  /\ result.out.shape = <<args.x.shape[1], args.x.shape[2], 2>>

\* the aggregated output is the projection of x: same shape, same values
AggregateIsProjection ==
  /\ out.shape = x.shape
  /\ \A i \in Indices(x.shape) : out.val[i] = R(x.val[i])

\* C7 as stated: empty edge list, add_self_loops, inference mode: the
\* aggregated output is every node's own projected feature.
C7_EdgeFreeIsProjection ==
  (pc = "concat" /\ args.edge_index = <<>> /\ self.add_self_loops /\ ~self.training)
    => AggregateIsProjection

\* C7 amended: the same, for the calls without size or with n_dst = size[1]
\* equal to the number of nodes of x.
C7_EdgeFreeIsProjectionSquare ==
  (/\ pc = "concat"
   /\ args.edge_index = <<>>
   /\ self.add_self_loops
   /\ ~self.training
   /\ (args.size = <<>> \/ args.size[2] = args.x.shape[1]))
    => AggregateIsProjection

C7_Witness ==
  /\ pc = "concat"
  /\ args.edge_index = <<>>
  /\ self.add_self_loops
  /\ ~self.training
  /\ args.size = <<>>
  /\ args.x.shape[1] >= 2
  /\ \A n \in NodesOfX : \E i \in Indices(x.shape) : i[1] = n /\ out.val[i] # R(0)

C9_AggregateIsWeightedSum ==
  pc = "concat" =>
    \A i \in Indices(out.shape) :
      /\ out.val[i] = RSumSet(LAMBDA e : RMul(alpha.val[<<e - 1, 0, i[3]>>],
                                             R(x.val[<<edge_index[e][1], i[2], i[3], i[4]>>])),
                              Incoming(i[1]))
      /\ Incoming(i[1]) = {} => out.val[i] = R(0)

\* a destination entered twice by the same edge and by another one, with a
\* value that is not zero
C9_Witness ==
  /\ pc = "concat"
  /\ \E k1, k2, k3 \in 1 .. Len(edge_index) :
       /\ k1 # k2
       /\ edge_index[k1] = edge_index[k2]
       /\ edge_index[k3][2] = edge_index[k1][2]
       /\ edge_index[k3][1] # edge_index[k1][1]
       /\ \E i \in Indices(out.shape) : i[1] = edge_index[k1][2] /\ out.val[i] # R(0)
  /\ \E i \in Indices(out.shape) : Incoming(i[1]) = {}

\* other <<edge_attr, fill_value>> a call can pass with the same edge list
OtherCalls(ei) ==
  { <<NoAttr, MeanFill>>,
    <<[present |-> TRUE, v |-> [k \in 1 .. Len(ei) |-> R(k)]], MeanFill>>,
    <<[present |-> TRUE, v |-> [k \in 1 .. Len(ei) |-> R(2 - 3 * (k % 2))]],
      [kind |-> "float", v |-> 2]>>,
    <<[present |-> TRUE, v |-> [k \in 1 .. Len(ei) |-> R(k)]],
      [kind |-> "Tensor", v |-> 1]>> }

\* what lines 108-117 make of the caller's edge list under another edge_attr
\* and fill_value
OtherLoops(ea, fv) ==
  IF self.add_self_loops
  THEN WithSelfLoops(args.edge_index, ea, fv, NumNodes(x, args.size))
  ELSE [edge_index |-> args.edge_index, edge_attr |-> ea]

OtherLoopsOk(ea, fv) ==
  self.add_self_loops =>
    WithSelfLoopsOk(args.edge_index, ea, fv, NumNodes(x, args.size))

\* the logits of line 145 under another call's self-loop step
OtherLogits(looped) ==
  EdgeUpdateLogits(Lift(alpha_src, looped.edge_index, 1),
                   Lift(alpha_dst, looped.edge_index, 2), looped.edge_attr)

\* C10: the embeddings and attention weights forward returns in inference mode
\* are those of the same call with any other edge_attr and fill_value: from
\* line 108 on (x and the node logits do not involve either), that call
\* raises nothing and computes the same edge list, the same logits at line
\* 145, and the same weights and output at its return.
C10_AttrIndependent ==
  ~self.training =>
    \A call \in OtherCalls(args.edge_index) :
      \A looped \in {OtherLoops(call[1], call[2])} :
        /\ pc = "edge_update" =>
             /\ looped.edge_index = edge_index
             /\ OtherLogits(looped) = alpha
        /\ pc = "done" =>
             \A logits \in {OtherLogits(looped)} :
             \A weights \in {IF Len(looped.edge_index) = 0 THEN logits
                             ELSE EdgeUpdateWeights(logits, Dst(looped.edge_index),
                                    self.negative_slope, self.dropout, FALSE,
                                    [i \in Indices(logits.shape) |-> TRUE])} :
             \A msg \in {Message(x, looped.edge_index, weights)} :
             \A agg \in {Aggregate(msg, Dst(looped.edge_index), DimSize(x, args.size))} :
               /\ OtherLoopsOk(call[1], call[2])
               /\ IndexInRange(looped.edge_index, x.shape[1])
               /\ PropagateOk(x, looped.edge_index, args.size)
               /\ looped.edge_index = edge_index
               /\ weights = alpha
               /\ out = IF self.concat
                        THEN ConcatView(agg, x_dim, self.heads, self.out_channels)
                        ELSE MeanHeads(agg)

\* a call with edge attributes on edges and on the added self-loops
C10_Witness ==
  /\ pc = "done"
  /\ ~self.training
  /\ self.add_self_loops
  /\ args.edge_attr.present
  /\ Len(args.edge_index) >= 2
  /\ self.fill_value.kind = "mean"
  /\ \E k \in 1 .. Len(edge_attr.v) : k > Len(args.edge_index) /\ edge_attr.v[k] # R(0)

=============================================================================
